---- MODULE Spec2Model ----
(***************************************************************************)
(* Model of the Cloudflare Worker video proxy (handleRequest).             *)
(*                                                                         *)
(* Two builds of the handler exist in the repository:                      *)
(*   "worker"  - src/cloudflare_worder.js : the domain allowlist block is  *)
(*               commented out, the decoded URL is first parsed by         *)
(*               new Request(originalUrl, ...).                            *)
(*   "part000" - src/unnamed/part_000 : the allowlist block is live, the   *)
(*               decoded URL is first parsed by new URL(originalUrl).      *)
(*                                                                         *)
(* JavaScript strings that the handler inspects (the vid token, the        *)
(* decoded URL, hostnames, allowlist entries, exception messages) are      *)
(* sequences of one-character strings, so that atob, startsWith, includes  *)
(* and URL parsing are computed character by character.  Strings that the  *)
(* handler only copies (header values, fixed JSON error texts) are TLA+    *)
(* strings.                                                                *)
(***************************************************************************)
EXTENDS Integers, Sequences, FiniteSets, TLC

(***************************************************************************)
(* Character tables                                                        *)
(***************************************************************************)

\* The Base64 alphabet in index order 0..63 (atob, forgiving-base64 decode).
B64Alphabet ==
  <<"A","B","C","D","E","F","G","H","I","J","K","L","M","N","O","P","Q","R",
    "S","T","U","V","W","X","Y","Z","a","b","c","d","e","f","g","h","i","j",
    "k","l","m","n","o","p","q","r","s","t","u","v","w","x","y","z","0","1",
    "2","3","4","5","6","7","8","9","+","/">>

\* Printable ASCII, code points 32..126 in order (the grave accent, 96, is
\* written as its escape).
Ascii ==
  <<" ","!","\"","#","$","%","&","'","(",")","*","+",",","-",".","/","0","1",
    "2","3","4","5","6","7","8","9",":",";","<","=",">","?","@","A","B","C",
    "D","E","F","G","H","I","J","K","L","M","N","O","P","Q","R","S","T","U",
    "V","W","X","Y","Z","[","\\","]","^","_","\\x96","a","b","c","d","e","f","g",
    "h","i","j","k","l","m","n","o","p","q","r","s","t","u","v","w","x","y",
    "z","{","|","}","~">>

Range(f) == { f[i] : i \in DOMAIN f }

\* The characters of the Base64 alphabet.
B64Chars == Range(B64Alphabet)

\* Index (0..63) of each Base64 alphabet character.
B64IndexOf == [c \in B64Chars |-> (CHOOSE i \in 1..64 : B64Alphabet[i] = c) - 1]

B64Index(c) == B64IndexOf[c]

\* The character of a byte of a binary string (String.fromCharCode).
ByteToChar(b) == IF b \in 32..126 THEN Ascii[b - 31] ELSE "\\x" \o ToString(b)

\* Code point of each character of the printable range.
CharCodeOf == [c \in Range(Ascii) |-> (CHOOSE i \in 1..95 : Ascii[i] = c) + 31]

\* Code point of a character of the printable range, 0 for any other.
CharCode(c) == IF c \in DOMAIN CharCodeOf THEN CharCodeOf[c] ELSE 0

\* ASCII lower-casing of one character (URL host parser).
ToLowerChar(c) ==
  IF CharCode(c) \in 65..90 THEN ByteToChar(CharCode(c) + 32) ELSE c

(***************************************************************************)
(* JavaScript string operations on character sequences                     *)
(***************************************************************************)

\* String.prototype.startsWith
startsWith(s, p) == Len(p) <= Len(s) /\ SubSeq(s, 1, Len(p)) = p

\* String.prototype.includes
includes(s, p) ==
  \E i \in 0..(Len(s) - Len(p)) : SubSeq(s, i + 1, i + Len(p)) = p

\* Array.prototype.map over the characters of a string
RECURSIVE MapLower(_)
MapLower(s) ==
  IF s = <<>> THEN <<>> ELSE <<ToLowerChar(Head(s))>> \o MapLower(Tail(s))

\* Positions of s at which a character of the set cs occurs.
Positions(s, cs) == { i \in 1..Len(s) : s[i] \in cs }

Min(S) == CHOOSE x \in S : \A y \in S : x <= y
Max(S) == CHOOSE x \in S : \A y \in S : x >= y

(***************************************************************************)
(* atob : forgiving-base64 decode                                          *)
(***************************************************************************)

AsciiWhitespace == {" ", "\t", "\n", "\f", "\r"}

RECURSIVE StripWhitespace(_)
StripWhitespace(s) ==
  IF s = <<>> THEN <<>>
  ELSE IF Head(s) \in AsciiWhitespace THEN StripWhitespace(Tail(s))
  ELSE <<Head(s)>> \o StripWhitespace(Tail(s))

\* Remove one or two trailing "=" when the length is a multiple of four.
StripPadding(s) ==
  IF Len(s) % 4 = 0 /\ Len(s) > 0 /\ s[Len(s)] = "="
  THEN IF s[Len(s) - 1] = "="
       THEN SubSeq(s, 1, Len(s) - 2)
       ELSE SubSeq(s, 1, Len(s) - 1)
  ELSE s

\* Decode a padding-free Base64 sequence: every 4 characters give 3 bytes,
\* a trailing group of 2 (3) characters gives 1 (2) bytes, left-over bits
\* are discarded.
RECURSIVE B64Bytes(_)
B64Bytes(s) ==
  IF Len(s) < 2 THEN <<>>
  ELSE LET a == B64Index(s[1])
           b == B64Index(s[2])
           b1 == (a * 4 + b \div 16) % 256
       IN IF Len(s) = 2 THEN <<ByteToChar(b1)>>
          ELSE LET c == B64Index(s[3])
                   b2 == ((b % 16) * 16 + c \div 4) % 256
               IN IF Len(s) = 3 THEN <<ByteToChar(b1), ByteToChar(b2)>>
                  ELSE LET d == B64Index(s[4])
                           b3 == ((c % 4) * 64 + d) % 256
                       IN <<ByteToChar(b1), ByteToChar(b2), ByteToChar(b3)>>
                          \o B64Bytes(SubSeq(s, 5, Len(s)))

\* atob(data): [throws |-> TRUE] for an InvalidCharacterError, otherwise the
\* decoded binary string.
atob(data) ==
  LET s == StripPadding(StripWhitespace(data))
  IN IF Len(s) % 4 = 1 \/ \E i \in 1..Len(s) : s[i] \notin B64Chars
     THEN [throws |-> TRUE, value |-> <<>>]
     ELSE [throws |-> FALSE, value |-> B64Bytes(s)]

(***************************************************************************)
(* URL parsing (new URL(s), new Request(s)) for http: and https: strings   *)
(*                                                                         *)
(* Only strings that begin with "http://" or "https://" reach a URL parse  *)
(* (the scheme check precedes it).  The parser follows the URL Standard    *)
(* for special schemes: slashes and backslashes after the scheme are       *)
(* skipped, the authority ends at the first / \ ? or #, credentials end at *)
(* the last @, the port follows the first colon of the remainder, an       *)
(* empty host, a forbidden host character or a non-numeric port is a       *)
(* failure, and the host is lower-cased.  IPv6 literals, percent-encoded   *)
(* and non-ASCII hosts are outside the inputs considered.                  *)
(***************************************************************************)

Digits == {"0","1","2","3","4","5","6","7","8","9"}

C0Control == { ByteToChar(b) : b \in 0..31 }

ForbiddenHostChars ==
  C0Control \cup {" ", "\"", "#", "%", "/", ":", "<", ">", "?", "@", "[",
                  "\\", "]", "^", "|", ByteToChar(127)}

\* The part of s after the scheme and its colon.
AfterScheme(s) == SubSeq(s, Min(Positions(s, {":"})) + 1, Len(s))

RECURSIVE SkipSlashes(_)
SkipSlashes(s) ==
  IF s # <<>> /\ Head(s) \in {"/", "\\"} THEN SkipSlashes(Tail(s)) ELSE s

Authority(s) ==
  LET rest == SkipSlashes(AfterScheme(s))
      ends == Positions(rest, {"/", "\\", "?", "#"})
  IN IF ends = {} THEN rest ELSE SubSeq(rest, 1, Min(ends) - 1)

HostPort(s) ==
  LET auth == Authority(s)
      ats  == Positions(auth, {"@"})
  IN IF ats = {} THEN auth ELSE SubSeq(auth, Max(ats) + 1, Len(auth))

\* [throws |-> TRUE] for the TypeError of an unparseable URL, otherwise the
\* hostname of the parsed URL.
URLParse(s) ==
  LET hp     == HostPort(s)
      colons == Positions(hp, {":"})
      host   == IF colons = {} THEN hp ELSE SubSeq(hp, 1, Min(colons) - 1)
      port   == IF colons = {} THEN <<>> ELSE SubSeq(hp, Min(colons) + 1, Len(hp))
  IN IF \/ host = <<>>
        \/ \E i \in 1..Len(host) : host[i] \in ForbiddenHostChars
        \/ \E i \in 1..Len(port) : port[i] \notin Digits
        \/ Len(port) > 5
     THEN [throws |-> TRUE, hostname |-> <<>>]
     ELSE [throws |-> FALSE, hostname |-> MapLower(host)]

(***************************************************************************)
(* Fixed strings of the handler                                            *)
(***************************************************************************)

HttpPrefix  == <<"h","t","t","p",":","/","/">>
HttpsPrefix == <<"h","t","t","p","s",":","/","/">>

\* 'commondatastorage.googleapis.com'
CommonDataStorage ==
  <<"c","o","m","m","o","n","d","a","t","a","s","t","o","r","a","g","e",".",
    "g","o","o","g","l","e","a","p","i","s",".","c","o","m">>

\* 'storage.googleapis.com'
StorageGoogleapis ==
  <<"s","t","o","r","a","g","e",".","g","o","o","g","l","e","a","p","i","s",
    ".","c","o","m">>

\* 'example.com'
ExampleCom == <<"e","x","a","m","p","l","e",".","c","o","m">>

\* The allowedDomains array as shipped in part_000.
ShippedAllowedDomains == <<CommonDataStorage, StorageGoogleapis>>

UserAgent == "Mozilla/5.0 (Windows NT 10.0; Win64; x64) AppleWebKit/537.36"

CorsHeaders ==
  [n \in {"Access-Control-Allow-Origin", "Access-Control-Allow-Methods",
          "Access-Control-Allow-Headers"} |->
     CASE n = "Access-Control-Allow-Origin"  -> "*"
       [] n = "Access-Control-Allow-Methods" -> "GET, HEAD, OPTIONS"
       [] n = "Access-Control-Allow-Headers" -> "Range, Content-Type"]

JsonHeaders == [n \in {"Content-Type"} |-> "application/json"]

NoHeaders == [n \in {} |-> ""]

(***************************************************************************)
(* Headers objects: a function from the names present to their values      *)
(***************************************************************************)

Null == "<null>"

\* Headers.prototype.has
HeadersHas(h, name) == name \in DOMAIN h

\* Headers.prototype.get : the value, or null when the header is absent
HeadersGet(h, name) == IF name \in DOMAIN h THEN h[name] ELSE Null

\* a || b on a string-or-null : null and the empty string are falsy
OrElse(a, b) == IF a = Null \/ a = "" THEN b ELSE a

\* Headers.prototype.set
HeadersSet(h, name, value) ==
  [n \in DOMAIN h \cup {name} |-> IF n = name THEN value ELSE h[n]]

(***************************************************************************)
(* Inputs: incoming requests, origin responses, runtime error messages     *)
(***************************************************************************)

\* vid tokens as they appear in the query string, each with the string it
\* stands for.
\* https://storage.googleapis.com/v.mp4
TokStorage ==
  <<"a","H","R","0","c","H","M","6","L","y","9","z","d","G","9","y","Y","W",
    "d","l","L","m","d","v","b","2","d","s","Z","W","F","w","a","X","M","u",
    "Y","2","9","t","L","3","Y","u","b","X","A","0">>
\* https://example.com/v.mp4
TokExample ==
  <<"a","H","R","0","c","H","M","6","L","y","9","l","e","G","F","t","c","G",
    "x","l","L","m","N","v","b","S","9","2","L","m","1","w","N","A","=","=">>
\* http://cdn.example.com.evil.org/a
TokEvilSub ==
  <<"a","H","R","0","c","D","o","v","L","2","N","k","b","i","5","l","e","G",
    "F","t","c","G","x","l","L","m","N","v","b","S","5","l","d","m","l","s",
    "L","m","9","y","Z","y","9","h">>
\* http://evil.org/
TokEvil ==
  <<"a","H","R","0","c","D","o","v","L","2","V","2","a","W","w","u","b","3",
    "J","n","L","w","=","=">>
\* http://storage.googleapis.com@evil.org/v  (credentials, host evil.org)
TokUserinfo ==
  <<"a","H","R","0","c","D","o","v","L","3","N","0","b","3","J","h","Z","2",
    "U","u","Z","2","9","v","Z","2","x","l","Y","X","B","p","c","y","5","j",
    "b","2","1","A","Z","X","Z","p","b","C","5","v","c","m","c","v","d","g",
    "=","=">>
\* https://user@Storage.GoogleAPIs.com:8443/v  (upper case host, port)
TokUpper ==
  <<"a","H","R","0","c","H","M","6","L","y","9","1","c","2","V","y","Q","F",
    "N","0","b","3","J","h","Z","2","U","u","R","2","9","v","Z","2","x","l",
    "Q","V","B","J","c","y","5","j","b","2","0","6","O","D","Q","0","M","y",
    "9","2">>
\* http://  (begins with http:// but has no host: unparseable)
TokBare == <<"a","H","R","0","c","D","o","v","L","w","=","=">>
\* http://a b/  (space in the host: unparseable)
TokSpace == <<"a","H","R","0","c","D","o","v","L","2","E","g","Y","i","8","=">>
\* ftp://x/
TokFtp == <<"Z","n","R","w","O","i","8","v","e","C","8","=">>
\* Base64 of http://evil.org/~> ; its "+" reads as a space in a query string
TokPlus ==
  <<"a","H","R","0","c","D","o","v","L","2","V","2","a","W","w","u","b","3",
    "J","n","L","3","4","+">>
\* not Base64: a character outside the alphabet / a length of 4k+1
TokBadChar == <<"!","!","!","!">>
TokBadLen  == <<"a","b","c","d","e">>

Tokens ==
  {TokStorage, TokExample, TokEvilSub, TokEvil, TokUserinfo, TokUpper,
   TokBare, TokSpace, TokFtp, TokPlus, TokBadChar, TokBadLen, <<>>}

\* The query of request.url: the vid parameter is absent, or present with a
\* raw value.
Queries ==
  {[hasVid |-> FALSE, vid |-> <<>>]} \cup {[hasVid |-> TRUE, vid |-> t] : t \in Tokens}

Methods == {"GET", "HEAD", "OPTIONS", "POST"}

\* Inbound header sets: each of Accept, Range and Cookie is absent or
\* carries a value; Accept may also be sent empty.
InboundValues ==
  [n \in {"Accept", "Range", "Cookie"} |->
     CASE n = "Accept" -> {"video/webm", ""}
       [] n = "Range"  -> {"bytes=0-1023"}
       [] n = "Cookie" -> {"sid=1"}]

InboundHeaders ==
  UNION { { h \in [present -> {"video/webm", "", "bytes=0-1023", "sid=1"}] :
              \A n \in present : h[n] \in InboundValues[n] } :
          present \in SUBSET {"Accept", "Range", "Cookie"} }

Requests == [method : Methods, query : Queries, headers : InboundHeaders]

\* Origin responses: a status and any subset of the four headers the relay
\* reads.
OriginValues ==
  [n \in {"Content-Type", "Accept-Ranges", "Content-Length", "Content-Range"} |->
     CASE n = "Content-Type"   -> "video/webm"
       [] n = "Accept-Ranges"  -> "none"
       [] n = "Content-Length" -> "100"
       [] n = "Content-Range"  -> "bytes 0-99/1000"]

OriginStatuses == {200, 206, 404, 503}

OriginResponses ==
  { [status |-> st, headers |-> [n \in present |-> OriginValues[n]], body |-> "origin stream"] :
      st \in OriginStatuses,
      present \in SUBSET {"Content-Type", "Accept-Ranges", "Content-Length", "Content-Range"} }

\* 'Invalid URL'
InvalidUrlMessage == <<"I","n","v","a","l","i","d"," ","U","R","L">>

\* 'Network connection lost.'
NetworkLostMessage ==
  <<"N","e","t","w","o","r","k"," ","c","o","n","n","e","c","t","i","o","n",
    " ","l","o","s","t",".">>

\* error.message of the TypeError that new URL(s) / new Request(s) throws for
\* an unparseable s.  The text belongs to the runtime, not to the handler:
\* runtimes report either the bare text or the text followed by the input.
TypeErrorMessages(s) ==
  {InvalidUrlMessage, InvalidUrlMessage \o <<":", " ">> \o s}

\* error.message of a rejected fetch.
FetchErrorMessages == {NetworkLostMessage}

(***************************************************************************)
(* State                                                                   *)
(***************************************************************************)

VARIABLES
  build,           \* which source file is deployed: "worker" or "part000"
  allowedDomains,  \* the allowedDomains array (static configuration)
  pc,              \* position of the handler
  request,         \* the incoming Request of the fetch event
  encryptedId,     \* url.searchParams.get('vid')
  originalUrl,     \* atob(encryptedId)
  hostname,        \* urlObj.hostname
  videoRequest,    \* the Request built for the origin
  videoResponse,   \* the origin's Response
  error,           \* message of the exception in flight to the top-level catch
  response,        \* the Response returned by handleRequest
  outbound,        \* requests handed to fetch, in order
  trace            \* what the handler did, in order

vars ==
  <<build, allowedDomains, pc, request, encryptedId, originalUrl, hostname,
    videoRequest, videoResponse, error, response, outbound, trace>>

NoRequest       == [method |-> "", query |-> [hasVid |-> FALSE, vid |-> <<>>], headers |-> NoHeaders]
NoVideoRequest  == [url |-> <<>>, method |-> "", headers |-> NoHeaders, hasBody |-> FALSE]
NoVideoResponse == [status |-> 0, headers |-> NoHeaders, body |-> ""]
NoResponse      == [status |-> 0, headers |-> NoHeaders, body |-> [kind |-> "none"]]
NullId          == [isNull |-> TRUE, str |-> <<>>]

\* Configurations: the worker build has no allowlist; part_000 ships with two
\* Google storage domains and is meant to be edited ("Add your streaming
\* domains here").
Configs ==
  {[build |-> "worker", allowedDomains |-> <<>>]}
  \cup {[build |-> "part000", allowedDomains |-> d] :
          d \in {ShippedAllowedDomains, <<ExampleCom>>, <<>>}}

Init ==
  /\ \E c \in Configs : build = c.build /\ allowedDomains = c.allowedDomains
  /\ pc = "idle"
  /\ request = NoRequest
  /\ encryptedId = NullId
  /\ originalUrl = <<>>
  /\ hostname = <<>>
  /\ videoRequest = NoVideoRequest
  /\ videoResponse = NoVideoResponse
  /\ error = <<>>
  /\ response = NoResponse
  /\ outbound = <<>>
  /\ trace = <<>>

(***************************************************************************)
(* Pieces of handleRequest                                                 *)
(***************************************************************************)

\* Variant of PreflightResponse: the preflight answered 204 No Content.
PreflightResponseNoContent ==
  [status |-> 204, headers |-> CorsHeaders, body |-> [kind |-> "null"]]

\* new Response(null, {headers: {...CORS...}}) : status defaults to 200
PreflightResponse ==
  [status |-> 200, headers |-> CorsHeaders, body |-> [kind |-> "null"]]

\* new Response(JSON.stringify({error: text}), {status, headers: JSON})
JsonError(status, text) ==
  [status |-> status, headers |-> JsonHeaders,
   body |-> [kind |-> "json", error |-> text]]

MissingVideoIdResponse == JsonError(400, "Missing video ID")
InvalidVideoIdResponse == JsonError(400, "Invalid video ID")
InvalidUrlResponse     == JsonError(400, "Invalid URL")
UnauthorizedResponse   == JsonError(403, "Unauthorized domain")

\* The response of the top-level catch.
ServerErrorResponse(message) ==
  [status |-> 500, headers |-> JsonHeaders,
   body |-> [kind |-> "json", error |-> "Server error", message |-> message]]

\* URLSearchParams.get('vid') : null when absent, otherwise the value with
\* every "+" read as a space (application/x-www-form-urlencoded).
searchParamsGet(query) ==
  IF ~query.hasVid THEN NullId
  ELSE [isNull |-> FALSE,
        str |-> [i \in 1..Len(query.vid) |->
                   IF query.vid[i] = "+" THEN " " ELSE query.vid[i]]]

\* Variant of isAllowed: a domain-suffix match (hostname.endsWith(domain)).
isAllowedSuffix(host, domains) ==
  \E i \in 1..Len(domains) :
    /\ Len(domains[i]) <= Len(host)
    /\ SubSeq(host, Len(host) - Len(domains[i]) + 1, Len(host)) = domains[i]

\* allowedDomains.some(domain => urlObj.hostname.includes(domain))
isAllowed(host, domains) ==
  \E i \in 1..Len(domains) : includes(host, domains[i])

\* Variant of videoRequestHeaders: the inbound Cookie is forwarded as well.
videoRequestHeadersWithCookie(req) ==
  [n \in {"User-Agent", "Accept", "Accept-Language", "Range"}
         \cup (DOMAIN req.headers \cap {"Cookie"}) |->
     CASE n = "User-Agent"      -> UserAgent
       [] n = "Accept"          -> OrElse(HeadersGet(req.headers, "Accept"), "*/*")
       [] n = "Accept-Language" -> "en-US,en;q=0.9"
       [] n = "Range"           -> OrElse(HeadersGet(req.headers, "Range"), "")
       [] n = "Cookie"          -> req.headers["Cookie"]]

\* The headers object given to new Request(originalUrl, ...).
videoRequestHeaders(req) ==
  [n \in {"User-Agent", "Accept", "Accept-Language", "Range"} |->
     CASE n = "User-Agent"      -> UserAgent
       [] n = "Accept"          -> OrElse(HeadersGet(req.headers, "Accept"), "*/*")
       [] n = "Accept-Language" -> "en-US,en;q=0.9"
       [] n = "Range"           -> OrElse(HeadersGet(req.headers, "Range"), "")]

\* Variant of responseHeaders: Content-Length is always set, "0" when the
\* origin sent none.
responseHeadersAlwaysLength(vr) ==
  LET base ==
        [n \in {"Content-Type", "Accept-Ranges", "Cache-Control", "Content-Length"}
               \cup DOMAIN CorsHeaders |->
           CASE n = "Content-Type"   -> OrElse(HeadersGet(vr.headers, "Content-Type"), "video/mp4")
             [] n = "Accept-Ranges"  -> OrElse(HeadersGet(vr.headers, "Accept-Ranges"), "bytes")
             [] n = "Cache-Control"  -> "public, max-age=3600"
             [] n = "Content-Length" -> OrElse(HeadersGet(vr.headers, "Content-Length"), "0")
             [] OTHER                -> CorsHeaders[n]]
  IN IF HeadersHas(vr.headers, "Content-Range")
     THEN HeadersSet(base, "Content-Range", HeadersGet(vr.headers, "Content-Range"))
     ELSE base

\* The Headers object of the relayed response.
responseHeaders(vr) ==
  LET base ==
        [n \in {"Content-Type", "Accept-Ranges", "Cache-Control"} \cup DOMAIN CorsHeaders |->
           CASE n = "Content-Type"  -> OrElse(HeadersGet(vr.headers, "Content-Type"), "video/mp4")
             [] n = "Accept-Ranges" -> OrElse(HeadersGet(vr.headers, "Accept-Ranges"), "bytes")
             [] n = "Cache-Control" -> "public, max-age=3600"
             [] OTHER               -> CorsHeaders[n]]
      withLength ==
        IF HeadersHas(vr.headers, "Content-Length")
        THEN HeadersSet(base, "Content-Length", HeadersGet(vr.headers, "Content-Length"))
        ELSE base
  IN IF HeadersHas(vr.headers, "Content-Range")
     THEN HeadersSet(withLength, "Content-Range", HeadersGet(vr.headers, "Content-Range"))
     ELSE withLength

(***************************************************************************)
(* Steps of handleRequest                                                  *)
(***************************************************************************)

Return(r) ==
  /\ response' = r
  /\ pc' = "done"

\* addEventListener('fetch', ...) : the platform invokes the handler on a
\* request.
Dispatch ==
  /\ pc = "idle"
  /\ \E r \in Requests : request' = r
  /\ pc' = "preflight"
  /\ UNCHANGED <<build, allowedDomains, encryptedId, originalUrl, hostname,
                 videoRequest, videoResponse, error, response, outbound, trace>>

\* event.respondWith(...) : the response is handed to the platform and the
\* invocation ends; nothing is kept for a later request.
Complete ==
  /\ pc = "done"
  /\ pc' = "idle"
  /\ request' = NoRequest
  /\ encryptedId' = NullId
  /\ originalUrl' = <<>>
  /\ hostname' = <<>>
  /\ videoRequest' = NoVideoRequest
  /\ videoResponse' = NoVideoResponse
  /\ error' = <<>>
  /\ response' = NoResponse
  /\ outbound' = <<>>
  /\ trace' = <<>>
  /\ UNCHANGED <<build, allowedDomains>>

\* if (request.method === 'OPTIONS') return new Response(null, ...)
Preflight ==
  /\ pc = "preflight"
  /\ IF request.method = "OPTIONS"
     THEN /\ Return(PreflightResponse)
          /\ trace' = trace \o <<"preflight", "respond">>
     ELSE /\ pc' = "getVid"
          /\ trace' = trace \o <<"enterTry">>
          /\ UNCHANGED response
  /\ UNCHANGED <<build, allowedDomains, request, encryptedId, originalUrl,
                 hostname, videoRequest, videoResponse, error, outbound>>

\* const encryptedId = url.searchParams.get('vid'); if (!encryptedId) return 400
GetVid ==
  /\ pc = "getVid"
  /\ encryptedId' = searchParamsGet(request.query)
  /\ IF encryptedId'.isNull \/ encryptedId'.str = <<>>
     THEN /\ Return(MissingVideoIdResponse)
          /\ trace' = trace \o <<"respond">>
     ELSE /\ pc' = "decode"
          /\ trace' = trace \o <<"vidPresent">>
          /\ UNCHANGED response
  /\ UNCHANGED <<build, allowedDomains, request, originalUrl, hostname,
                 videoRequest, videoResponse, error, outbound>>

\* 'Invalid character'
InvalidCharacterMessage ==
  <<"I","n","v","a","l","i","d"," ","c","h","a","r","a","c","t","e","r">>

\* Variant of Decode: atob is called without the inner try/catch, its
\* exception reaches the top-level catch.
DecodeUncaught ==
  /\ pc = "decode"
  /\ LET d == atob(encryptedId.str)
     IN IF d.throws
        THEN /\ error' = InvalidCharacterMessage
             /\ pc' = "catch"
             /\ trace' = trace \o <<"throw atob">>
             /\ UNCHANGED originalUrl
        ELSE /\ originalUrl' = d.value
             /\ pc' = "validate"
             /\ trace' = trace \o <<"decoded">>
             /\ UNCHANGED error
  /\ UNCHANGED <<build, allowedDomains, request, encryptedId, hostname,
                 videoRequest, videoResponse, response, outbound>>

\* try { originalUrl = atob(encryptedId) } catch (e) { return 400 }
Decode ==
  /\ pc = "decode"
  /\ LET d == atob(encryptedId.str)
     IN IF d.throws
        THEN /\ Return(InvalidVideoIdResponse)
             /\ trace' = trace \o <<"throw atob", "catch inner", "respond">>
             /\ UNCHANGED originalUrl
        ELSE /\ originalUrl' = d.value
             /\ pc' = "validate"
             /\ trace' = trace \o <<"decoded">>
             /\ UNCHANGED response
  /\ UNCHANGED <<build, allowedDomains, request, encryptedId, hostname,
                 videoRequest, videoResponse, error, outbound>>

\* if (!startsWith('http://') && !startsWith('https://')) return 400
ValidateScheme ==
  /\ pc = "validate"
  /\ IF ~startsWith(originalUrl, HttpPrefix) /\ ~startsWith(originalUrl, HttpsPrefix)
     THEN /\ Return(InvalidUrlResponse)
          /\ trace' = trace \o <<"respond">>
     ELSE /\ pc' = IF build = "part000" THEN "allowlist" ELSE "build"
          /\ trace' = trace \o <<"schemeOk">>
          /\ UNCHANGED response
  /\ UNCHANGED <<build, allowedDomains, request, encryptedId, originalUrl,
                 hostname, videoRequest, videoResponse, error, outbound>>

\* part_000 only: const urlObj = new URL(originalUrl); isAllowed = ...;
\* if (!isAllowed && allowedDomains.length > 0) return 403
CheckAllowlist ==
  /\ pc = "allowlist"
  /\ LET u == URLParse(originalUrl)
     IN IF u.throws
        THEN /\ \E m \in TypeErrorMessages(originalUrl) : error' = m
             /\ pc' = "catch"
             /\ trace' = trace \o <<"throw URL">>
             /\ UNCHANGED <<hostname, response>>
        ELSE /\ hostname' = u.hostname
             /\ IF ~isAllowed(u.hostname, allowedDomains) /\ Len(allowedDomains) > 0
                THEN /\ Return(UnauthorizedResponse)
                     /\ trace' = trace \o <<"parsed", "respond">>
                ELSE /\ pc' = "build"
                     /\ trace' = trace \o <<"parsed", "allowlistOk">>
                     /\ UNCHANGED response
             /\ UNCHANGED error
  /\ UNCHANGED <<build, allowedDomains, request, encryptedId, originalUrl,
                 videoRequest, videoResponse, outbound>>

\* const videoRequest = new Request(originalUrl, {method, headers})
BuildRequest ==
  /\ pc = "build"
  /\ IF URLParse(originalUrl).throws
     THEN /\ \E m \in TypeErrorMessages(originalUrl) : error' = m
          /\ pc' = "catch"
          /\ trace' = trace \o <<"throw Request">>
          /\ UNCHANGED videoRequest
     ELSE /\ videoRequest' = [url |-> originalUrl, method |-> request.method,
                              headers |-> videoRequestHeaders(request),
                              hasBody |-> FALSE]
          /\ pc' = "fetch"
          /\ trace' = trace \o <<"built">>
          /\ UNCHANGED error
  /\ UNCHANGED <<build, allowedDomains, request, encryptedId, originalUrl,
                 hostname, videoResponse, response, outbound>>

\* await fetch(videoRequest) : the request leaves for the origin
Fetch ==
  /\ pc = "fetch"
  /\ outbound' = Append(outbound, videoRequest)
  /\ pc' = "awaitFetch"
  /\ trace' = trace \o <<"fetch">>
  /\ UNCHANGED <<build, allowedDomains, request, encryptedId, originalUrl,
                 hostname, videoRequest, videoResponse, error, response>>

\* the fetch promise resolves with the origin's response
FetchResolve ==
  /\ pc = "awaitFetch"
  /\ \E r \in OriginResponses : videoResponse' = r
  /\ pc' = "relay"
  /\ trace' = trace \o <<"fetchResolved">>
  /\ UNCHANGED <<build, allowedDomains, request, encryptedId, originalUrl,
                 hostname, videoRequest, error, response, outbound>>

\* Variant of FetchReject: the fetch is awaited outside the try block, the
\* rejection leaves the handler and no response is produced.
FetchRejectUncaught ==
  /\ pc = "awaitFetch"
  /\ \E m \in FetchErrorMessages : error' = m
  /\ pc' = "done"
  /\ trace' = trace \o <<"throw fetch">>
  /\ UNCHANGED <<build, allowedDomains, request, encryptedId, originalUrl,
                 hostname, videoRequest, videoResponse, response, outbound>>

\* Variant of FetchReject: a rejected fetch is retried once before the
\* rejection is thrown.
FetchRejectRetry ==
  /\ pc = "awaitFetch"
  /\ IF Len(outbound) < 2
     THEN /\ pc' = "fetch"
          /\ trace' = trace \o <<"retry">>
          /\ UNCHANGED error
     ELSE /\ \E m \in FetchErrorMessages : error' = m
          /\ pc' = "catch"
          /\ trace' = trace \o <<"throw fetch">>
  /\ UNCHANGED <<build, allowedDomains, request, encryptedId, originalUrl,
                 hostname, videoRequest, videoResponse, response, outbound>>

\* the fetch promise rejects (DNS, connection, TLS, timeout)
FetchReject ==
  /\ pc = "awaitFetch"
  /\ \E m \in FetchErrorMessages : error' = m
  /\ pc' = "catch"
  /\ trace' = trace \o <<"throw fetch">>
  /\ UNCHANGED <<build, allowedDomains, request, encryptedId, originalUrl,
                 hostname, videoRequest, videoResponse, response, outbound>>

\* return new Response(videoResponse.body, {status, headers: responseHeaders})
Relay ==
  /\ pc = "relay"
  /\ Return([status |-> videoResponse.status,
             headers |-> responseHeaders(videoResponse),
             body |-> [kind |-> "stream", stream |-> videoResponse.body]])
  /\ trace' = trace \o <<"respond">>
  /\ UNCHANGED <<build, allowedDomains, request, encryptedId, originalUrl,
                 hostname, videoRequest, videoResponse, error, outbound>>

\* catch (error) { return new Response(JSON.stringify({error, message}), 500) }
Catch ==
  /\ pc = "catch"
  /\ Return(ServerErrorResponse(error))
  /\ trace' = trace \o <<"catch top", "respond">>
  /\ UNCHANGED <<build, allowedDomains, request, encryptedId, originalUrl,
                 hostname, videoRequest, videoResponse, error, outbound>>

Next ==
  \/ Dispatch
  \/ Preflight
  \/ GetVid
  \/ Decode
  \/ ValidateScheme
  \/ CheckAllowlist
  \/ BuildRequest
  \/ Fetch
  \/ FetchResolve
  \/ FetchReject
  \/ Relay
  \/ Catch
  \/ Complete

Spec == Init /\ [][Next]_vars

(***************************************************************************)
(* Properties                                                              *)
(***************************************************************************)

Did(e) == \E i \in DOMAIN trace : trace[i] = e

Count(e) == Cardinality({ i \in DOMAIN trace : trace[i] = e })

\* p occurs in s as a contiguous run of characters.
IsSubstring(p, s) ==
  \E i \in 1..(Len(s) + 1) : i + Len(p) - 1 <= Len(s) /\ \A k \in 1..Len(p) : s[i + k - 1] = p[k]

SchemeOk(s) == startsWith(s, HttpPrefix) \/ startsWith(s, HttpsPrefix)

\* 'cdn.example.com.evil.org'
CdnExampleEvil ==
  <<"c","d","n",".","e","x","a","m","p","l","e",".","c","o","m",".","e","v",
    "i","l",".","o","r","g">>

\* C1: an OPTIONS request, whatever its URL, vid or headers, causes no
\* outbound fetch and is answered with status 200, no body and exactly the
\* three CORS headers.
C1_PreflightAnswered ==
  request.method = "OPTIONS" =>
    /\ outbound = <<>>
    /\ pc \notin {"getVid", "decode", "validate", "allowlist", "build", "fetch",
                  "awaitFetch", "relay", "catch"}
    /\ pc = "done" =>
         /\ response.status = 200
         /\ response.body = [kind |-> "null"]
         /\ DOMAIN response.headers =
              {"Access-Control-Allow-Origin", "Access-Control-Allow-Methods",
               "Access-Control-Allow-Headers"}
         /\ response.headers["Access-Control-Allow-Origin"] = "*"
         /\ response.headers["Access-Control-Allow-Methods"] = "GET, HEAD, OPTIONS"
         /\ response.headers["Access-Control-Allow-Headers"] = "Range, Content-Type"

C1_Witness ==
  /\ pc = "done"
  /\ request.method = "OPTIONS"
  /\ request.query = [hasVid |-> TRUE, vid |-> TokStorage]
  /\ DOMAIN request.headers = {"Accept", "Range", "Cookie"}
  /\ response.status = 200

\* C2: a non-OPTIONS request whose decoded vid begins with http:// or
\* https:// but cannot be parsed as a URL is answered with 400
\* {error: "Invalid URL"}, not with the 500 "Server error", and no fetch is
\* issued.
C2_UnparseableIsInvalidUrl ==
  (/\ pc = "done"
   /\ request.method # "OPTIONS"
   /\ Did("decoded")
   /\ SchemeOk(originalUrl)
   /\ URLParse(originalUrl).throws)
  => /\ response.status = 400
     /\ response.body = [kind |-> "json", error |-> "Invalid URL"]
     /\ outbound = <<>>

\* The response carries the string s in its body.
Echoes(r, s) ==
  /\ r.body.kind = "json"
  /\ "message" \in DOMAIN r.body
  /\ IsSubstring(s, r.body.message)

\* C3: in no outcome of handleRequest does the response contain the decoded
\* origin URL.
C3_OriginUrlNeverEchoed ==
  (pc = "done" /\ Did("decoded") /\ originalUrl # <<>>) => ~Echoes(response, originalUrl)

\* C4: every request handed to fetch has method GET or HEAD, mirrors the
\* incoming method and carries no body.
C4_OutboundGetOrHead ==
  \A i \in DOMAIN outbound :
    /\ outbound[i].method \in {"GET", "HEAD"}
    /\ outbound[i].method = request.method
    /\ ~outbound[i].hasBody

\* C5: once the decoded URL has passed the scheme check and been parsed, a
\* non-empty allowlist rejects it with 403 {error: "Unauthorized domain"}
\* and without a fetch unless the hostname contains an allowlist entry as a
\* substring (entry example.com admits cdn.example.com.evil.org); an empty
\* allowlist rejects no hostname.
C5_AllowlistSubstring ==
  /\ (pc = "done" /\ Did("parsed")) =>
       LET listed == \E i \in DOMAIN allowedDomains : IsSubstring(allowedDomains[i], hostname)
       IN /\ (allowedDomains # <<>> /\ ~listed) =>
               /\ response.status = 403
               /\ response.body = [kind |-> "json", error |-> "Unauthorized domain"]
               /\ outbound = <<>>
          /\ (allowedDomains = <<>> \/ listed) =>
               /\ Did("fetch")
               /\ response.body # [kind |-> "json", error |-> "Unauthorized domain"]
          /\ (allowedDomains = <<ExampleCom>> /\ hostname = CdnExampleEvil) => Did("fetch")
  /\ (pc = "done" /\ allowedDomains = <<>>) =>
       response.body # [kind |-> "json", error |-> "Unauthorized domain"]

C5_Witness ==
  /\ pc = "done"
  /\ allowedDomains = <<ExampleCom>>
  /\ hostname = CdnExampleEvil
  /\ Len(outbound) = 1

\* C6: a non-OPTIONS request whose vid value fails Base64 decoding is
\* answered with 400 {error: "Invalid video ID"} and Content-Type
\* application/json, never with 500, and no fetch is issued.
C6_BadTokenIs400 ==
  (/\ pc = "done"
   /\ request.method # "OPTIONS"
   /\ ~encryptedId.isNull
   /\ encryptedId.str # <<>>
   /\ atob(encryptedId.str).throws)
  => /\ response.status = 400
     /\ response.body = [kind |-> "json", error |-> "Invalid video ID"]
     /\ response.headers = [n \in {"Content-Type"} |-> "application/json"]
     /\ outbound = <<>>

C6_Witness ==
  /\ pc = "done"
  /\ request.method = "GET"
  /\ request.query.vid = TokBadLen
  /\ response.status = 400
  /\ Did("throw atob")

\* C7: after a successful fetch the response has the origin's status, and
\* carries Content-Range (Content-Length) exactly when the origin did, with
\* the origin's value.
C7_RelayFaithful ==
  (pc = "done" /\ Did("fetchResolved")) =>
    /\ response.status = videoResponse.status
    /\ \A n \in {"Content-Range", "Content-Length"} :
         /\ n \in DOMAIN response.headers <=> n \in DOMAIN videoResponse.headers
         /\ n \in DOMAIN videoResponse.headers => response.headers[n] = videoResponse.headers[n]

C7_Witness ==
  /\ pc = "done"
  /\ Did("fetchResolved")
  /\ videoResponse.status = 206
  /\ DOMAIN videoResponse.headers = {"Content-Range"}
  /\ response.status = 206
  /\ response.headers["Content-Range"] = "bytes 0-99/1000"
  /\ "Content-Length" \notin DOMAIN response.headers

\* C8: the outbound headers are exactly User-Agent, Accept, Accept-Language
\* and Range, with Accept defaulting to */* and Range to the empty string
\* when absent (an Accept sent empty also gives */*),
\* and any incoming request with the same method, vid, Accept and Range
\* produces the same outbound request whatever its other headers.
C8_OutboundHeaderPolicy ==
  \A i \in DOMAIN outbound :
    /\ DOMAIN outbound[i].headers = {"User-Agent", "Accept", "Accept-Language", "Range"}
    /\ outbound[i].headers["Accept"] =
         IF "Accept" \in DOMAIN request.headers /\ request.headers["Accept"] # ""
         THEN request.headers["Accept"] ELSE "*/*"
    /\ outbound[i].headers["Range"] =
         IF "Range" \in DOMAIN request.headers THEN request.headers["Range"] ELSE ""
    /\ \A r \in Requests :
         (/\ r.method = request.method
          /\ r.query = request.query
          /\ HeadersGet(r.headers, "Accept") = HeadersGet(request.headers, "Accept")
          /\ HeadersGet(r.headers, "Range") = HeadersGet(request.headers, "Range"))
         => outbound[i] = [url |-> atob(searchParamsGet(r.query).str).value,
                           method |-> r.method,
                           headers |-> videoRequestHeaders(r),
                           hasBody |-> FALSE]

C8_Witness ==
  /\ Len(outbound) = 1
  /\ DOMAIN request.headers = {"Cookie", "Range"}
  /\ outbound[1].headers["Accept"] = "*/*"
  /\ outbound[1].headers["Range"] = "bytes=0-1023"

Throws == {"throw atob", "throw URL", "throw Request", "throw fetch"}

Raised(es) == { i \in DOMAIN trace : trace[i] \in es }

IsServerError(r) ==
  /\ r.status = 500
  /\ r.headers = [n \in {"Content-Type"} |-> "application/json"]
  /\ r.body = [kind |-> "json", error |-> "Server error", message |-> error]

\* C9 as stated: every request ends in exactly one response, and any failure
\* raised after the OPTIONS check is caught by the top-level catch and
\* becomes the 500 "Server error" response.
C9_EveryFailureIs500 ==
  pc = "done" =>
    /\ Count("respond") = 1
    /\ response # NoResponse
    /\ Raised(Throws) # {} => (Count("catch top") = 1 /\ IsServerError(response))

\* C9 amended: every request ends in exactly one response and no exception
\* leaves the handler; a failure of atob is caught by the inner catch and
\* answered 400 "Invalid video ID"; any other failure raised after the
\* OPTIONS check is caught once by the top-level catch and becomes the 500
\* "Server error" response carrying the exception's message.
C9_FailuresCaught ==
  pc = "done" =>
    /\ Count("respond") = 1
    /\ response # NoResponse
    /\ Cardinality(Raised(Throws)) = Count("catch top") + Count("catch inner")
    /\ Raised(Throws \ {"throw atob"}) # {} =>
         (Count("catch top") = 1 /\ Count("catch inner") = 0 /\ IsServerError(response))
    /\ Did("throw atob") =>
         /\ Count("catch inner") = 1
         /\ Count("catch top") = 0
         /\ response.status = 400
         /\ response.body = [kind |-> "json", error |-> "Invalid video ID"]

C9_Witness ==
  /\ pc = "done"
  /\ Did("throw fetch")
  /\ response.status = 500
  /\ response.body.message = NetworkLostMessage

\* The stage events of the trace, in the order they happened.
RECURSIVE Stages(_)
Stages(t) ==
  IF t = <<>> THEN <<>>
  ELSE IF Head(t) \in {"vidPresent", "decoded", "schemeOk", "allowlistOk", "fetch"}
       THEN <<Head(t)>> \o Stages(Tail(t))
       ELSE Stages(Tail(t))

StageOrder ==
  IF build = "part000"
  THEN <<"vidPresent", "decoded", "schemeOk", "allowlistOk", "fetch">>
  ELSE <<"vidPresent", "decoded", "schemeOk", "fetch">>

\* C10: the stages run in order, the fetch is issued at most once and only
\* after the vid was present, decoded, passed the scheme check and passed
\* the allowlist; a request that fails a stage is answered without a fetch,
\* and a failed fetch is followed directly by the terminal error response.
C10_LinearPipeline ==
  /\ Len(outbound) <= 1
  /\ Count("fetch") = Len(outbound)
  /\ LET st == Stages(trace)
     IN Len(st) <= Len(StageOrder) /\ st = SubSeq(StageOrder, 1, Len(st))
  /\ outbound # <<>> =>
       LET decoded == atob(searchParamsGet(request.query).str)
       IN /\ request.query.hasVid /\ request.query.vid # <<>>
          /\ ~decoded.throws
          /\ SchemeOk(decoded.value)
          /\ \/ allowedDomains = <<>>
             \/ \E i \in DOMAIN allowedDomains :
                  IsSubstring(allowedDomains[i], URLParse(decoded.value).hostname)
  /\ (pc = "done" /\ request.method # "OPTIONS" /\ ~Did("fetch")) =>
       /\ response.body.kind = "json"
       /\ response.status \in {400, 403, 500}
       /\ outbound = <<>>
  /\ \A i \in DOMAIN trace :
       trace[i] = "throw fetch" =>
         \/ i = Len(trace) /\ pc = "catch"
         \/ /\ SubSeq(trace, i + 1, Len(trace)) = <<"catch top", "respond">>
            /\ pc = "done"
            /\ response.status = 500
            /\ Len(outbound) = 1

C10_Witness ==
  /\ pc = "done"
  /\ build = "part000"
  /\ Did("allowlistOk")
  /\ Did("throw fetch")
  /\ Len(outbound) = 1
  /\ response.status = 500

====
